---- MODULE Spec2Model ----
(***************************************************************************)
(* The Hexells host (src/hexells.js): construction, the engine's ready     *)
(* callback and setup(), the animation loop (requestAnimationFrame and     *)
(* setTimeout), the model timer, the input handlers, switchModel/setModel  *)
(* and destroy().  Every handler runs to completion (one JavaScript task), *)
(* so every handler is one action.  The engine (ca.js) is not part of the  *)
(* sources: the host's calls to it are recorded, and a call on a destroyed *)
(* engine fails as the specification says (EngineDestroyedError).          *)
(***************************************************************************)
EXTENDS Integers, Sequences, FiniteSets, TLC

\* ------------------------------------------------------------------ bounds
\* number of entries of models.model_names (models.json)
NumModels == 2
\* largest |swipe| given to switchModel by a direct caller
MaxSwipe == 5
\* largest number of simultaneous touch points of a touch event
MaxTouches == 2
\* cap on the travel l + r + u + d accumulated by one gesture
MaxTravel == 420
\* cells of the engine's field (a ring), standing for the 160 x 160 grid
NumCells == 2

\* ------------------------------------------------------- program constants
DefaultBrushRadius == 16
DefaultStepPerFrame == 1
GuiMaxStepPerFrame == 6
SwipeMs == 1000
SwipeTravel == 200

\* hexells.js:9-13
powerOptions == {"high-performance", "low-power", "default"}

\* the value of a JavaScript expression that is undefined or null
Undefined == -1000
\* options.powerPreference left out (undefined); a falsy value behaves alike
Absent == ""

Instances == {1, 2}
ModelIndexes == 0 .. (NumModels - 1)
\* every order Math.random() and sort() can give the model ids (hexells.js:89-92)
Shuffles ==
  {f \in [ModelIndexes -> ModelIndexes] : \A i, j \in ModelIndexes : f[i] = f[j] => i = j}
\* handles of requestAnimationFrame: one more than can be pending at a time
Handles == 1 .. (Cardinality(Instances) + 1)
\* pointer positions of the input events, in canvas pixels
Positions == {<<0, 0>>, <<300, 0>>}
\* Readings of Date.now(), in ms.  Only the difference of the reading at the
\* end of a gesture and the one at its start is used (hexells.js:193), so the
\* reading at the start is taken as the origin.
StartTimes == {0}
Times == {0, 1000}

VARIABLES
  hexellsAnimation, \* module variable: the last requestAnimationFrame handle, 0 when undefined or null
  phase,            \* per instance: "none", "failed" (constructor threw), "constructed", "setup"
  gl,               \* per instance: [asked: powerPreference given to getContext or "none", ok: a context came back]
  ca,               \* per instance: the engine: "none", "loading", "ready", "destroyed"
  canvasAttached,   \* per instance: the canvas has a parentElement
  brushRadius, stepPerFrame, responsive,
  shuffledModelIds, curModelIndex, modelId,
  gesture,          \* per instance: this.gesture, NoGesture when undefined or null
  listeners,        \* per instance: the input listeners of setup() are registered
  interval,         \* per instance: the setInterval of setup() is registered
  rafPending,       \* per instance: handles of its pending requestAnimationFrame callbacks
  timeouts,         \* per instance: number of its pending setTimeout callbacks of render()
  fingers,          \* per instance: touch points now on the canvas (the browser's state)
  last,             \* per instance: [op: the latest event or call, err: what it threw]
  calls,            \* per instance: the engine calls the latest event issued, in order
  rt,               \* the round trip in progress of a direct caller of switchModel
  current,          \* an engine on its own: which of its two state buffers is current
  buffers,          \* that engine: the two state buffers, each a field of cells
  released,         \* that engine: destroy() has been called on it
  engLast           \* that engine: [op, err, read, wrote, swaps] of its latest operation

hostVars == <<hexellsAnimation, phase, gl, ca, canvasAttached, brushRadius, stepPerFrame,
              responsive, shuffledModelIds, curModelIndex, modelId, gesture, listeners,
              interval, rafPending, timeouts, fingers, last, calls, rt>>

engineVars == <<current, buffers, released, engLast>>

vars == <<hostVars, engineVars>>

\* ----------------------------------------------------------------- helpers
Upd(f, h, v) == [f EXCEPT ![h] = v]

Max(a, b) == IF a >= b THEN a ELSE b

\* the % of JavaScript: the result has the sign of the dividend
JsRem(a, n) == IF a >= 0 THEN a % n ELSE -((-a) % n)

\* one call of the host on its engine
Call(op, x, y, r, id) == [op |-> op, x |-> x, y |-> y, r |-> r, id |-> id, ok |-> TRUE]
Step == Call("step", 0, 0, 0, Undefined)
Draw == Call("draw", 0, 0, 0, Undefined)
Disturb == Call("disturb", 0, 0, 0, Undefined)
Paint(id) == Call("paint", 0, 0, -1, id)
ClearCircleOrigin(pos, r) == Call("clearCircle", 0, 0, r, Undefined)
ClearCircle(pos, r) == Call("clearCircle", pos[1], pos[2], r, Undefined)

EditOps == {"paint", "disturb", "clearCircle"}

validIdAny(id) == TRUE

\* modelId must be in [0, ModelBank.count())
validId(id) == id \in ModelIndexes

\* the first of the calls cs with an invalid argument, 0 when there is none:
\* paint with an invalid modelId fails with InvalidModelIdError
FirstInvalid(cs) ==
  LET bad == {i \in DOMAIN cs : cs[i].op = "paint" /\ ~validId(cs[i].id)} IN
  IF bad = {} THEN 0 ELSE CHOOSE i \in bad : \A j \in bad : i <= j

\* Of the calls cs a handler means to issue, the one that fails, 0 when none
\* does: any call on a destroyed engine throws EngineDestroyedError.
FailsAt(h, cs) ==
  IF cs = <<>> THEN 0 ELSE IF ca[h] = "destroyed" THEN 1 ELSE FirstInvalid(cs)

\* The failing call is issued and throws, the calls after it never happen.
Throws(h, cs) == FailsAt(h, cs) > 0
Issued(h, cs) ==
  IF Throws(h, cs)
    THEN [i \in 1 .. FailsAt(h, cs) |->
            IF i = FailsAt(h, cs) THEN [cs[i] EXCEPT !.ok = FALSE] ELSE cs[i]]
    ELSE cs
ErrOf(h, cs) ==
  IF ~Throws(h, cs) THEN ""
  ELSE IF ca[h] = "destroyed" THEN "EngineDestroyedError" ELSE "InvalidModelIdError"

\* the event op of instance h ran, meant to issue cs, and threw err
Record(h, op, cs, err) ==
  /\ last' = Upd(last, h, [op |-> op, err |-> err])
  /\ calls' = Upd(calls, h, cs)

Engine(h, op, cs) == Record(h, op, Issued(h, cs), ErrOf(h, cs))

\* the constructor of instance h returned an object
Alive(h) == phase[h] \in {"constructed", "setup"}

NoGesture == [on |-> FALSE, l |-> 0, r |-> 0, u |-> 0, d |-> 0, prevPos |-> <<0, 0>>, time |-> 0]
NoRoundTrip == [stage |-> 0, h |-> 0, k |-> 0, cur |-> 0, id |-> 0]

\* ---------------------------------------------------------- the engine's data
Cells == 0 .. (NumCells - 1)
Buffers == {0, 1}
\* values of the hidden channels of a cell
Hidden == {0, 1}
\* a cell: its model-selector, whether it is alive, its hidden channels
Cell(sel, alive, hid) == [sel |-> sel, alive |-> alive, hid |-> hid]
\* the dead/empty state and the seed state, under the selector sel
DeadCell(sel) == Cell(sel, FALSE, 0)
SeedCell(sel) == Cell(sel, TRUE, 0)
CellsOf(sel) == {DeadCell(sel)} \cup {Cell(sel, TRUE, v) : v \in Hidden}
\* reset(seed): every cell the same constant
ResetField == [c \in Cells |-> DeadCell(0)]
NoEngineOp == [op |-> "none", err |-> "", read |-> {}, wrote |-> {}, swaps |-> 0]

\* a handle no pending callback has and hexellsAnimation does not hold
FreshHandle ==
  CHOOSE i \in Handles :
    /\ i # hexellsAnimation /\ \A g \in Instances : i \notin rafPending[g]
    /\ \A j \in Handles :
         (j # hexellsAnimation /\ \A g \in Instances : j \notin rafPending[g]) => i <= j

\* hexellsAnimation = requestAnimationFrame(() => this.render())
RequestFrame(h) ==
  /\ hexellsAnimation' = FreshHandle
  /\ rafPending' = Upd(rafPending, h, rafPending[h] \cup {FreshHandle})

Init ==
  /\ hexellsAnimation = 0
  /\ phase = [h \in Instances |-> "none"]
  /\ gl = [h \in Instances |-> [asked |-> "none", ok |-> FALSE]]
  /\ ca = [h \in Instances |-> "none"]
  /\ canvasAttached = [h \in Instances |-> FALSE]
  /\ brushRadius = [h \in Instances |-> DefaultBrushRadius]
  /\ stepPerFrame = [h \in Instances |-> DefaultStepPerFrame]
  /\ responsive = [h \in Instances |-> FALSE]
  /\ shuffledModelIds = [h \in Instances |-> [i \in ModelIndexes |-> Undefined]]
  /\ curModelIndex = [h \in Instances |-> Undefined]
  /\ modelId = [h \in Instances |-> Undefined]
  /\ gesture = [h \in Instances |-> NoGesture]
  /\ listeners = [h \in Instances |-> FALSE]
  /\ interval = [h \in Instances |-> FALSE]
  /\ rafPending = [h \in Instances |-> {}]
  /\ timeouts = [h \in Instances |-> 0]
  /\ fingers = [h \in Instances |-> 0]
  /\ last = [h \in Instances |-> [op |-> "none", err |-> ""]]
  /\ calls = [h \in Instances |-> <<>>]
  /\ rt = NoRoundTrip
  /\ current = 0
  /\ buffers = [b \in Buffers |-> ResetField]
  /\ released = FALSE
  /\ engLast = NoEngineOp

\* ------------------------------------------------------------- constructor
validPowerAny(powerPreference) == TRUE

\* powerOptions.includes(powerPreference)
validPower(powerPreference) == powerPreference \in powerOptions

\* new Hexells(canvas, options): pp is options.powerPreference, spf
\* options.stepPerFrame, resp options.responsive; ctx tells whether
\* canvas.getContext returns a context, att whether the canvas is in the page.
construct(h, pp, spf, resp, ctx, att) ==
  /\ phase[h] = "none"
  /\ LET powerPreference == IF pp = Absent THEN "default" ELSE pp IN
     IF ~validPower(powerPreference)
       THEN /\ phase' = Upd(phase, h, "failed")
            /\ last' = Upd(last, h, [op |-> "construct", err |-> "Invalid powerPreference"])
            /\ UNCHANGED <<gl, ca, canvasAttached, stepPerFrame, responsive>>
       ELSE IF ~ctx
         THEN /\ phase' = Upd(phase, h, "failed")
              /\ gl' = Upd(gl, h, [asked |-> powerPreference, ok |-> FALSE])
              /\ last' = Upd(last, h, [op |-> "construct", err |-> "WebGL"])
              /\ UNCHANGED <<ca, canvasAttached, stepPerFrame, responsive>>
         ELSE /\ phase' = Upd(phase, h, "constructed")
              /\ gl' = Upd(gl, h, [asked |-> powerPreference, ok |-> TRUE])
              /\ stepPerFrame' = Upd(stepPerFrame, h, spf)
              /\ responsive' = Upd(responsive, h, resp)
              /\ ca' = Upd(ca, h, "loading")
              /\ canvasAttached' = Upd(canvasAttached, h, att)
              /\ last' = Upd(last, h, [op |-> "construct", err |-> ""])
  /\ UNCHANGED <<hexellsAnimation, brushRadius, shuffledModelIds, curModelIndex, modelId,
                 gesture, listeners, interval, rafPending, timeouts, fingers, calls, rt>>
  /\ UNCHANGED engineVars

\* ------------------------------------------------------------------- setup
setupCallsNone(id) == <<>>

\* the engine call of setup(): this.ca.paint(0, 0, -1, this.modelId)
setupCalls(id) == <<Paint(id)>>

registersListenersAlways(resp) == TRUE

\* if (this.responsive) the listeners, else the model timer
registersListeners(resp) == resp

\* The engine's ready callback: () => this.setup(models).  shuf is the order
\* the shuffle gives.  The engine is not in the sources: whether the callback
\* still comes after destroy() is open, so both are possible.
setup(h, shuf) ==
  /\ phase[h] = "constructed"
  /\ ca[h] \in {"loading", "destroyed"}
  /\ phase' = Upd(phase, h, "setup")
  /\ ca' = Upd(ca, h, IF ca[h] = "loading" THEN "ready" ELSE ca[h])
  /\ shuffledModelIds' = Upd(shuffledModelIds, h, shuf)
  /\ curModelIndex' = Upd(curModelIndex, h, shuf[0])
  /\ modelId' = Upd(modelId, h, shuf[shuf[0]])
  /\ Engine(h, "setup", setupCalls(shuf[shuf[0]]))
     \* this.guesture = null writes a field nothing reads: this.gesture stays undefined
  /\ IF ca[h] = "destroyed"
       THEN UNCHANGED <<listeners, interval, hexellsAnimation, rafPending>>
       ELSE /\ listeners' = Upd(listeners, h, registersListeners(responsive[h]))
            /\ interval' = Upd(interval, h, ~responsive[h])
            /\ RequestFrame(h)
  /\ UNCHANGED <<gl, canvasAttached, brushRadius, stepPerFrame, responsive, gesture,
                 timeouts, fingers, rt>>
  /\ UNCHANGED engineVars

\* ---------------------------------------------------------- animation loop
renderCallsDisturbed(spf) ==
  [i \in 1 .. (spf + 2) |-> IF i <= spf THEN Step ELSE IF i = spf + 1 THEN Disturb ELSE Draw]

\* the calls of one render(): the step loop, then draw
renderCalls(spf) == [i \in 1 .. (spf + 1) |-> IF i <= spf THEN Step ELSE Draw]

\* the pending animation frame id of instance h fires: render()
render(h, id) ==
  /\ id \in rafPending[h]
  /\ rafPending' = Upd(rafPending, h, rafPending[h] \ {id})
  /\ Engine(h, "render", renderCalls(stepPerFrame[h]))
  /\ timeouts' = Upd(timeouts, h, IF Throws(h, renderCalls(stepPerFrame[h]))
                                    THEN timeouts[h] ELSE timeouts[h] + 1)
  /\ UNCHANGED <<hexellsAnimation, phase, gl, ca, canvasAttached, brushRadius, stepPerFrame,
                 responsive, shuffledModelIds, curModelIndex, modelId, gesture, listeners,
                 interval, fingers, rt>>
  /\ UNCHANGED engineVars

\* the setTimeout callback of render() fires: request the next frame
nextFrame(h) ==
  /\ timeouts[h] > 0
  /\ timeouts' = Upd(timeouts, h, timeouts[h] - 1)
  /\ RequestFrame(h)
  /\ Record(h, "timeout", <<>>, "")
  /\ UNCHANGED <<phase, gl, ca, canvasAttached, brushRadius, stepPerFrame, responsive,
                 shuffledModelIds, curModelIndex, modelId, gesture, listeners, interval,
                 fingers, rt>>
  /\ UNCHANGED engineVars

\* ----------------------------------------------------------------- destroy
\* cancelAnimationFrame(hexellsAnimation), whichever instance requested it
cancelled == [g \in Instances |-> rafPending[g] \ {hexellsAnimation}]

destroy(h) ==
  /\ Alive(h)
  /\ rafPending' = cancelled
  /\ hexellsAnimation' = 0
  /\ IF ca[h] = "destroyed"
       THEN \* ca.destroy() on a destroyed engine
            /\ last' = Upd(last, h, [op |-> "destroy", err |-> "EngineDestroyedError"])
            /\ UNCHANGED <<ca, canvasAttached>>
       ELSE /\ ca' = Upd(ca, h, "destroyed")
            /\ canvasAttached' = Upd(canvasAttached, h, FALSE)
               \* canvas.parentElement is null for a canvas that is in no page
            /\ last' = Upd(last, h, [op |-> "destroy",
                                     err |-> IF canvasAttached[h] THEN "" ELSE "TypeError"])
  /\ calls' = Upd(calls, h, <<>>)
  /\ UNCHANGED <<phase, gl, brushRadius, stepPerFrame, responsive, shuffledModelIds,
                 curModelIndex, modelId, gesture, listeners, interval, timeouts, fingers, rt>>
  /\ UNCHANGED engineVars

\* ------------------------------------------------------------ model switch
switchIndexNoWrap(cur, n, swipe) == JsRem(cur + swipe, n)

\* switchModel(swipe): the new curModelIndex
switchIndex(cur, n, swipe) == JsRem(cur + n + swipe, n)

\* shuffledModelIds[i]: undefined outside the array
idAt(shuf, i) == IF i \in DOMAIN shuf THEN shuf[i] ELSE Undefined

setModelCallsNoPaint(id) == <<Disturb>>

\* setModel(id): the engine calls
setModelCalls(id) == <<Paint(id), Disturb>>

\* this.switchModel(swipe) as the whole of the event op
switchModel(h, op, swipe) ==
  LET cur == switchIndex(curModelIndex[h], NumModels, swipe)
      id == idAt(shuffledModelIds[h], cur)
  IN /\ curModelIndex' = Upd(curModelIndex, h, cur)
     /\ modelId' = Upd(modelId, h, id)
     /\ Engine(h, op, setModelCalls(id))

\* this.switchModel(swipe) throws: a call of setModel fails
switchThrows(h, swipe) ==
  Throws(h, setModelCalls(idAt(shuffledModelIds[h],
                               switchIndex(curModelIndex[h], NumModels, swipe))))

\* the setInterval callback of setup(): () => this.switchModel(1)
tick(h) ==
  /\ interval[h]
  /\ switchModel(h, "tick", 1)
  /\ UNCHANGED <<hexellsAnimation, phase, gl, ca, canvasAttached, brushRadius, stepPerFrame,
                 responsive, shuffledModelIds, gesture, listeners, interval, rafPending,
                 timeouts, fingers, rt>>
  /\ UNCHANGED engineVars

\* ---------------------------------------------------------------- gestures
\* startGestue(pos), with t the reading of Date.now()
startGestue(pos, t) ==
  [on |-> TRUE, l |-> 0, r |-> 0, u |-> 0, d |-> 0, prevPos |-> pos, time |-> t]

\* touch(pos): what it does to this.gesture
moved(g, pos) ==
  IF g.on
    THEN [g EXCEPT !.l = @ + Max(g.prevPos[1] - pos[1], 0),
                   !.r = @ + Max(pos[1] - g.prevPos[1], 0),
                   !.u = @ + Max(g.prevPos[2] - pos[2], 0),
                   !.d = @ + Max(pos[2] - g.prevPos[2], 0),
                   !.prevPos = pos]
    ELSE g

travel(g) == g.l + g.r + g.u + g.d

\* endGestue() at the reading now of Date.now(): the swipe given to
\* switchModel, 0 when it is not called (x < l * 0.25 is 4 * x < l)
swipeOf(g, now) ==
  IF ~g.on \/ ~(now - g.time < SwipeMs) THEN 0
  ELSE IF g.l > SwipeTravel /\ 4 * Max(g.r, Max(g.u, g.d)) < g.l THEN -1
  ELSE IF g.r > SwipeTravel /\ 4 * Max(g.l, Max(g.u, g.d)) < g.r THEN 1
  ELSE 0

\* this.endGestue() as the whole of the event op
endGestue(h, op, now) ==
  LET swipe == swipeOf(gesture[h], now) IN
  IF swipe # 0
    THEN /\ switchModel(h, op, swipe)
            \* a switchModel that throws ends endGestue before this.gesture = null
         /\ gesture' = Upd(gesture, h, IF switchThrows(h, swipe) THEN gesture[h]
                                                                ELSE NoGesture)
    ELSE /\ gesture' = Upd(gesture, h, NoGesture)
         /\ Record(h, op, <<>>, "")
         /\ UNCHANGED <<curModelIndex, modelId>>

\* an event op reached no listener of instance h, or its handler did nothing
ignored(h, op) ==
  /\ Record(h, op, <<>>, "")
  /\ UNCHANGED <<gesture, curModelIndex, modelId>>

\* ------------------------------------------------------------ mouse events
\* b is event.buttons; a canvas outside the page gets no mouse event
mousedown(h, pos, b, t) ==
  /\ Alive(h) /\ canvasAttached[h]
  /\ IF listeners[h] /\ b = 1
       THEN /\ gesture' = Upd(gesture, h, moved(startGestue(pos, t), pos))
            /\ Engine(h, "mousedown", <<ClearCircle(pos, brushRadius[h])>>)
            /\ UNCHANGED <<curModelIndex, modelId>>
       ELSE ignored(h, "mousedown")
  /\ UNCHANGED <<hexellsAnimation, phase, gl, ca, canvasAttached, brushRadius, stepPerFrame,
                 responsive, shuffledModelIds, listeners, interval, rafPending, timeouts,
                 fingers, rt>>
  /\ UNCHANGED engineVars

mousemove(h, pos, b) ==
  /\ Alive(h) /\ canvasAttached[h]
  /\ travel(moved(gesture[h], pos)) <= MaxTravel
  /\ IF listeners[h] /\ b = 1
       THEN /\ gesture' = Upd(gesture, h, moved(gesture[h], pos))
            /\ Engine(h, "mousemove", <<ClearCircle(pos, brushRadius[h])>>)
            /\ UNCHANGED <<curModelIndex, modelId>>
       ELSE ignored(h, "mousemove")
  /\ UNCHANGED <<hexellsAnimation, phase, gl, ca, canvasAttached, brushRadius, stepPerFrame,
                 responsive, shuffledModelIds, listeners, interval, rafPending, timeouts,
                 fingers, rt>>
  /\ UNCHANGED engineVars

mouseup(h, t) ==
  /\ Alive(h) /\ canvasAttached[h]
  /\ t >= gesture[h].time
  /\ IF listeners[h]
       THEN endGestue(h, "mouseup", t)
       ELSE ignored(h, "mouseup")
  /\ UNCHANGED <<hexellsAnimation, phase, gl, ca, canvasAttached, brushRadius, stepPerFrame,
                 responsive, shuffledModelIds, listeners, interval, rafPending, timeouts,
                 fingers, rt>>
  /\ UNCHANGED engineVars

\* ------------------------------------------------------------ touch events
\* touchEvent(cb): cb runs for each of event.touches, ps their positions; the
\* loop ends at the first cb that throws
touchBeganAlways(ps, pos, t) == startGestue(pos, t)

\* the touchstart callback before its touch(pos): a gesture starts if this is
\* the only touch, else the gesture is cancelled
touchBegan(ps, pos, t) == IF Len(ps) = 1 THEN startGestue(pos, t) ELSE NoGesture

RECURSIVE eachTouch(_, _, _, _, _, _)
eachTouch(g, ps, i, n, start, t) ==
  IF i > n THEN g
  ELSE eachTouch(moved(IF start THEN touchBegan(ps, ps[i], t) ELSE g, ps[i]),
                 ps, i + 1, n, start, t)

touchCalls(h, ps) == [i \in 1 .. Len(ps) |-> ClearCircle(ps[i], brushRadius[h])]

touched(h, op, ps, start, t) ==
  /\ gesture' = Upd(gesture, h, eachTouch(gesture[h], ps, 1,
                                          IF ca[h] = "destroyed" THEN 1 ELSE Len(ps), start, t))
  /\ Engine(h, op, touchCalls(h, ps))
  /\ UNCHANGED <<curModelIndex, modelId>>

\* a finger comes down on the canvas (which is in the page)
touchstart(h, ps, t) ==
  /\ Alive(h) /\ canvasAttached[h]
  /\ fingers[h] < MaxTouches
  /\ Len(ps) = fingers[h] + 1
  /\ fingers' = Upd(fingers, h, fingers[h] + 1)
  /\ IF listeners[h]
       THEN touched(h, "touchstart", ps, TRUE, t)
       ELSE ignored(h, "touchstart")
  /\ UNCHANGED <<hexellsAnimation, phase, gl, ca, canvasAttached, brushRadius, stepPerFrame,
                 responsive, shuffledModelIds, listeners, interval, rafPending, timeouts, rt>>
  /\ UNCHANGED engineVars

\* the fingers on the canvas move; the events of a touch that began on the
\* canvas keep going to it after it has left the page
touchmove(h, ps) ==
  /\ Alive(h) /\ fingers[h] > 0
  /\ Len(ps) = fingers[h]
  /\ IF listeners[h]
       THEN /\ travel(eachTouch(gesture[h], ps, 1, Len(ps), FALSE, 0)) <= MaxTravel
            /\ touched(h, "touchmove", ps, FALSE, 0)
       ELSE ignored(h, "touchmove")
  /\ UNCHANGED <<hexellsAnimation, phase, gl, ca, canvasAttached, brushRadius, stepPerFrame,
                 responsive, shuffledModelIds, listeners, interval, rafPending, timeouts,
                 fingers, rt>>
  /\ UNCHANGED engineVars

touchend(h, t) ==
  /\ Alive(h) /\ fingers[h] > 0
  /\ t >= gesture[h].time
  /\ fingers' = Upd(fingers, h, fingers[h] - 1)
  /\ IF listeners[h]
       THEN endGestue(h, "touchend", t)
       ELSE ignored(h, "touchend")
  /\ UNCHANGED <<hexellsAnimation, phase, gl, ca, canvasAttached, brushRadius, stepPerFrame,
                 responsive, shuffledModelIds, listeners, interval, rafPending, timeouts, rt>>
  /\ UNCHANGED engineVars

\* ---------------------------------------------------------------- keyboard
\* a keypress on the document, which outlives the canvas
keypress(h, key) ==
  /\ Alive(h)
  /\ IF listeners[h] /\ key \in {"a", "z"}
       THEN /\ switchModel(h, "keypress", IF key = "a" THEN 1 ELSE -1)
            /\ UNCHANGED gesture
       ELSE ignored(h, "keypress")
  /\ UNCHANGED <<hexellsAnimation, phase, gl, ca, canvasAttached, brushRadius, stepPerFrame,
                 responsive, shuffledModelIds, listeners, interval, rafPending, timeouts,
                 fingers, rt>>
  /\ UNCHANGED engineVars

\* --------------------------------------------------------------------- gui
\* the dat.GUI controller of stepPerFrame (0 to 6 in steps of 1), which the
\* constructor makes for a responsive instance
guiStepPerFrame(h, v) ==
  /\ Alive(h) /\ responsive[h]
  /\ v # stepPerFrame[h]
  /\ stepPerFrame' = Upd(stepPerFrame, h, v)
  /\ Record(h, "gui", <<>>, "")
  /\ UNCHANGED <<hexellsAnimation, phase, gl, ca, canvasAttached, brushRadius, responsive,
                 shuffledModelIds, curModelIndex, modelId, gesture, listeners, interval,
                 rafPending, timeouts, fingers, rt>>
  /\ UNCHANGED engineVars

\* ------------------------------------------------------------ specification
Buttons == {1, 2}
Keys == {"a", "z", "x"}
TouchLists == UNION {[1 .. k -> Positions] : k \in 1 .. MaxTouches}

Solo == {1}
PowerChoices == {Absent, "bogus"}
StepChoices == 0 .. GuiMaxStepPerFrame

Next ==
  \E h \in Solo :
    \/ \E pp \in PowerChoices, spf \in StepChoices, resp \in BOOLEAN, ctx \in BOOLEAN,
          att \in {TRUE} : construct(h, pp, spf, resp, ctx, att)
    \/ \E shuf \in Shuffles : setup(h, shuf)
    \/ \E id \in Handles : render(h, id)
    \/ nextFrame(h)
    \/ destroy(h)
    \/ tick(h)
    \/ \E pos \in Positions, b \in Buttons, t \in StartTimes : mousedown(h, pos, b, t)
    \/ \E pos \in Positions, b \in Buttons : mousemove(h, pos, b)
    \/ \E t \in Times : mouseup(h, t)
    \/ \E ps \in TouchLists, t \in StartTimes : touchstart(h, ps, t)
    \/ \E ps \in TouchLists : touchmove(h, ps)
    \/ \E t \in Times : touchend(h, t)
    \/ \E key \in Keys : keypress(h, key)
    \/ \E v \in StepChoices : guiStepPerFrame(h, v)

Spec == Init /\ [][Next]_vars

\* ------------------------------------------- switchModel called directly
\* a caller's switchModel(k), the first half of a round trip
forward(h, k) ==
  /\ phase[h] = "setup" /\ ca[h] = "ready"
  /\ rt.stage # 1
  /\ rt' = [stage |-> 1, h |-> h, k |-> k, cur |-> curModelIndex[h], id |-> modelId[h]]
  /\ switchModel(h, "switchModel", k)
  /\ UNCHANGED <<hexellsAnimation, phase, gl, ca, canvasAttached, brushRadius, stepPerFrame,
                 responsive, shuffledModelIds, gesture, listeners, interval, rafPending,
                 timeouts, fingers>>
  /\ UNCHANGED engineVars

\* the caller's switchModel(-k) that follows it in the same task
backward(h) ==
  /\ rt.stage = 1 /\ rt.h = h
  /\ rt' = [rt EXCEPT !.stage = 2]
  /\ switchModel(h, "switchModel", -rt.k)
  /\ UNCHANGED <<hexellsAnimation, phase, gl, ca, canvasAttached, brushRadius, stepPerFrame,
                 responsive, shuffledModelIds, gesture, listeners, interval, rafPending,
                 timeouts, fingers>>
  /\ UNCHANGED engineVars

Swipes == 1 .. MaxSwipe

NextSwitch ==
  \E h \in Solo :
    \/ \E resp \in BOOLEAN :
         construct(h, Absent, DefaultStepPerFrame, resp, TRUE, TRUE)
    \/ \E shuf \in Shuffles : setup(h, shuf)
    \/ rt.stage # 1 /\ tick(h)
    \/ \E key \in Keys : rt.stage # 1 /\ keypress(h, key)
    \/ \E k \in Swipes : forward(h, k)
    \/ backward(h)

SpecSwitch == Init /\ [][NextSwitch]_vars

\* --------------------------------------------- every powerPreference option
AllPowerChoices == powerOptions \cup {Absent, "bogus", "High-Performance"}

NextPower ==
  \E h \in Solo :
    \/ \E pp \in AllPowerChoices, resp \in BOOLEAN, ctx \in BOOLEAN :
         construct(h, pp, DefaultStepPerFrame, resp, ctx, TRUE)
    \/ \E shuf \in Shuffles : setup(h, shuf)
    \/ \E id \in Handles : render(h, id)
    \/ nextFrame(h)
    \/ destroy(h)
    \/ tick(h)
    \/ \E key \in Keys : keypress(h, key)

SpecPower == Init /\ [][NextPower]_vars

\* ------------------------------------------------------- two instances
\* two instances in one page, which share the module variable hexellsAnimation
NextPair ==
  \E h \in Instances :
    \/ construct(h, Absent, DefaultStepPerFrame, FALSE, TRUE, TRUE)
    \/ \E shuf \in Shuffles : setup(h, shuf)
    \/ \E id \in Handles : render(h, id)
    \/ nextFrame(h)
    \/ destroy(h)

SpecPair == Init /\ [][NextPair]_vars

\* ------------------------------------------------ gestures at the limits
\* Pointer positions around the limits of the swipe test (200 px of travel,
\* a quarter of it across or back), one group of positions for each path; the
\* groups lie further apart than MaxTravel, so a gesture stays in its group.
GesturePositions ==
  {<<200, 0>>, <<0, 0>>,                     \* l = 200
   <<1201, 0>>, <<1000, 0>>, <<1050, 0>>,    \* l = 201, then r = 50
   <<2201, 0>>, <<2000, 0>>, <<2051, 0>>,    \* l = 201, then r = 51
   <<3201, 0>>, <<3000, 50>>,                \* l = 201 with d = 50
   <<4201, 0>>, <<4000, 51>>,                \* l = 201 with d = 51
   <<5201, 50>>, <<5000, 0>>,                \* l = 201 with u = 50
   <<6201, 51>>, <<6000, 0>>,                \* l = 201 with u = 51
   <<7000, 0>>, <<7200, 0>>,                 \* r = 200
   <<8000, 0>>, <<8201, 0>>, <<8151, 0>>,    \* r = 201, then l = 50
   <<9000, 0>>, <<9201, 0>>, <<9150, 0>>}    \* r = 201, then l = 51
\* one finger at a time
GestureTouchLists == [1 .. 1 -> GesturePositions]

NextGesture ==
  \E h \in Solo :
    \/ construct(h, Absent, DefaultStepPerFrame, TRUE, TRUE, TRUE)
    \/ \E shuf \in Shuffles : setup(h, shuf)
    \/ destroy(h)
    \/ \E pos \in GesturePositions, t \in StartTimes : mousedown(h, pos, 1, t)
    \/ \E pos \in GesturePositions : mousemove(h, pos, 1)
    \/ \E t \in Times : mouseup(h, t)
    \/ \E ps \in GestureTouchLists, t \in StartTimes : touchstart(h, ps, t)
    \/ \E ps \in GestureTouchLists : touchmove(h, ps)
    \/ \E t \in Times : touchend(h, t)

SpecGesture == Init /\ [][NextGesture]_vars

\* ------------------------------------------------- pointer input alone
\* a responsive instance and everything that reaches its input listeners:
\* mouse with either button state, touch lists of every length, the keys, and
\* destroy(), which leaves the listeners in place
NextPointer ==
  \E h \in Solo :
    \/ construct(h, Absent, DefaultStepPerFrame, TRUE, TRUE, TRUE)
    \/ \E shuf \in Shuffles : setup(h, shuf)
    \/ destroy(h)
    \/ \E pos \in Positions, b \in Buttons, t \in StartTimes : mousedown(h, pos, b, t)
    \/ \E pos \in Positions, b \in Buttons : mousemove(h, pos, b)
    \/ \E t \in Times : mouseup(h, t)
    \/ \E ps \in TouchLists, t \in StartTimes : touchstart(h, ps, t)
    \/ \E ps \in TouchLists : touchmove(h, ps)
    \/ \E t \in Times : touchend(h, t)
    \/ \E key \in Keys : keypress(h, key)

SpecPointer == Init /\ [][NextPointer]_vars

\* ------------------------------------------------- the engine on its own
\* The engine (ca.js) as the specification describes it, driven by any caller:
\* a field of cells in two buffers, of which one is current.
Abs(a) == IF a >= 0 THEN a ELSE -a
Min(a, b) == IF a <= b THEN a ELSE b
\* distance on the toroidal field
ringDist(a, b) == Min(Abs(a - b), NumCells - Abs(a - b))
\* the cells an edit at x with the given radius covers; -1 is the entire field
within(x, radius, c) == radius = -1 \/ ringDist(x, c) <= radius

stepTargetInPlace(c) == c

\* the buffer an update pass writes: the other one
stepTarget(c) == 1 - c

\* What one update pass can make of the field f.  The weights of the models
\* are not known: a cell may fire or not, live, grow or die; its selector
\* stays as it is.
Updates(f) == {g \in [Cells -> UNION {CellsOf(m) : m \in ModelIndexes \cup {Undefined}}] :
                 \A c \in Cells : g[c].sel = f[c].sel}

\* paint: selector and seed state for the covered cells, the seed at x
painted(f, x, radius, id) ==
  [c \in Cells |-> IF within(x, radius, c)
                     THEN (IF c = x THEN SeedCell(id) ELSE DeadCell(id))
                     ELSE f[c]]

\* clearCircle: the covered cells are killed, their selector stays
cleared(f, x, radius) ==
  [c \in Cells |-> IF radius >= 0 /\ within(x, radius, c) THEN DeadCell(f[c].sel) ELSE f[c]]

\* disturb: the hidden channels of the alive cells are perturbed
Disturbs(f) == {g \in [Cells -> UNION {CellsOf(m) : m \in ModelIndexes \cup {Undefined}}] :
                  \A c \in Cells : /\ g[c].sel = f[c].sel /\ g[c].alive = f[c].alive
                                    /\ (~f[c].alive => g[c] = f[c])}

\* the operation op fails with err: nothing is read or written
caFails(op, err) ==
  /\ engLast' = [op |-> op, err |-> err, read |-> {}, wrote |-> {}, swaps |-> 0]
  /\ UNCHANGED <<current, buffers, released>>

\* An edit reads the current buffer and leaves its result g in the buffer
\* that is current afterwards: written in place, or to the other buffer,
\* which then becomes current.
caEdit(op, g, inPlace) ==
  LET target == IF inPlace THEN current ELSE 1 - current IN
  /\ buffers' = [buffers EXCEPT ![target] = g]
  /\ current' = target
  /\ engLast' = [op |-> op, err |-> "", read |-> {current}, wrote |-> {target},
                 swaps |-> IF inPlace THEN 0 ELSE 1]
  /\ UNCHANGED released

caStep ==
  /\ IF released
       THEN caFails("step", "EngineDestroyedError")
       ELSE \E g \in Updates(buffers[current]) :
              /\ buffers' = [buffers EXCEPT ![stepTarget(current)] = g]
              /\ current' = stepTarget(current)
              /\ engLast' = [op |-> "step", err |-> "", read |-> {current},
                             wrote |-> {stepTarget(current)},
                             swaps |-> IF stepTarget(current) = current THEN 0 ELSE 1]
              /\ UNCHANGED released
  /\ UNCHANGED hostVars

caDraw ==
  /\ IF released
       THEN caFails("draw", "EngineDestroyedError")
       ELSE /\ engLast' = [op |-> "draw", err |-> "", read |-> {current}, wrote |-> {},
                           swaps |-> 0]
            /\ UNCHANGED <<current, buffers, released>>
  /\ UNCHANGED hostVars

caPaint(x, radius, id, inPlace) ==
  /\ IF released THEN caFails("paint", "EngineDestroyedError")
     ELSE IF ~validId(id) THEN caFails("paint", "InvalidModelIdError")
     ELSE caEdit("paint", painted(buffers[current], x, radius, id), inPlace)
  /\ UNCHANGED hostVars

caClearCircle(x, radius, inPlace) ==
  /\ IF released THEN caFails("clearCircle", "EngineDestroyedError")
     ELSE caEdit("clearCircle", cleared(buffers[current], x, radius), inPlace)
  /\ UNCHANGED hostVars

caDisturb(inPlace) ==
  /\ IF released THEN caFails("disturb", "EngineDestroyedError")
     ELSE \E g \in Disturbs(buffers[current]) : caEdit("disturb", g, inPlace)
  /\ UNCHANGED hostVars

caDestroy ==
  /\ IF released
       THEN caFails("destroy", "EngineDestroyedError")
       ELSE /\ released' = TRUE
            /\ engLast' = [op |-> "destroy", err |-> "", read |-> {}, wrote |-> {},
                           swaps |-> 0]
            /\ UNCHANGED <<current, buffers>>
  /\ UNCHANGED hostVars

\* the entire field, and the cell at x alone
Radii == {-1, 0}
\* model ids a caller may give: the valid ones, undefined, and the two next to the range
GivenIds == ModelIndexes \cup {Undefined, -1, NumModels}

NextEngine ==
  \/ caStep
  \/ caDraw
  \/ \E x \in Cells, radius \in Radii, id \in GivenIds, inPlace \in BOOLEAN :
       caPaint(x, radius, id, inPlace)
  \/ \E x \in Cells, radius \in Radii, inPlace \in BOOLEAN : caClearCircle(x, radius, inPlace)
  \/ \E inPlace \in BOOLEAN : caDisturb(inPlace)
  \/ caDestroy

SpecEngine == Init /\ [][NextEngine]_vars

\* ------------------------------------------------------------------ claims
InputOps == {"mousedown", "mousemove", "mouseup", "touchstart", "touchmove", "touchend",
             "keypress"}
PointerOps == {"mousedown", "mousemove", "mouseup", "touchstart", "touchmove", "touchend"}

OpsOf(h) == {calls[h][i].op : i \in DOMAIN calls[h]}

\* C1: once destroy() has returned on an instance, render() never runs again
\* for it: the latest event of a destroyed instance is never a render().
C1_DestroyStopsRender ==
  \A h \in Instances : ca[h] = "destroyed" => last[h].op # "render"

\* C2: once destroy() has been called on an instance, the model timer and the
\* key handler issue no paint or disturb, and the pointer and touch handlers
\* issue no clearCircle, to its engine.
C2_NoEditAfterDestroy ==
  \A h \in Instances :
    ca[h] = "destroyed" =>
      /\ last[h].op \in {"tick", "keypress"} => OpsOf(h) \cap {"paint", "disturb"} = {}
      /\ last[h].op \in PointerOps => "clearCircle" \notin OpsOf(h)

\* C3: from any curModelIndex in [0, n), switchModel(k) followed by
\* switchModel(-k), k >= 1, leaves curModelIndex and modelId as they were.
C3_RoundTrip ==
  (rt.stage = 2 /\ rt.cur \in ModelIndexes /\ rt.k >= 1) =>
    (curModelIndex[rt.h] = rt.cur /\ modelId[rt.h] = rt.id)

\* C4: after setup(), whatever ticks, key presses and swipes follow,
\* shuffledModelIds is a permutation of 0..n-1, curModelIndex is in [0, n),
\* modelId is shuffledModelIds[curModelIndex], and every id given to paint is
\* in [0, n).
C4_ModelIdValid ==
  \A h \in Instances :
    phase[h] = "setup" =>
      /\ shuffledModelIds[h] \in Shuffles
      /\ curModelIndex[h] \in ModelIndexes
      /\ modelId[h] = shuffledModelIds[h][curModelIndex[h]]
      /\ \A i \in DOMAIN calls[h] :
           calls[h][i].op = "paint" =>
             calls[h][i].id \in ModelIndexes /\ calls[h][i].id = modelId[h]

\* a recognised swipe to the left at index 0 has switched the model
C4_Witness ==
  /\ last[1].op \in {"mouseup", "touchend"} /\ Len(calls[1]) = 2
  /\ curModelIndex[1] = NumModels - 1

\* C5: every execution of render() calls step() exactly stepPerFrame times,
\* all before draw(), and draw() exactly once.
C5_FrameCalls ==
  \A h \in Instances :
    last[h].op = "render" =>
      /\ Len(calls[h]) = stepPerFrame[h] + 1
      /\ \A i \in 1 .. stepPerFrame[h] : calls[h][i].op = "step"
      /\ calls[h][stepPerFrame[h] + 1].op = "draw"

\* C6: edits never land inside a frame: the calls of a render() are step and
\* draw calls only, a frame that is not cut short by a failing call ends with
\* its draw within that render(), and no other event issues a step or a draw,
\* so the step..., draw run of a frame is contiguous in the engine's trace.
C6_EditsBetweenFrames ==
  \A h \in Instances :
    /\ last[h].op = "render" => OpsOf(h) \subseteq {"step", "draw"}
    /\ last[h].op # "render" => OpsOf(h) \subseteq EditOps
    /\ (last[h].op = "render" /\ last[h].err = "") =>
         /\ calls[h] # <<>> /\ calls[h][Len(calls[h])].op = "draw"
         /\ \A i \in 1 .. (Len(calls[h]) - 1) : calls[h][i].op = "step"

\* an erase arrives while the delay that follows a frame is pending
C6_Witness ==
  /\ last[1].op = "mousemove" /\ OpsOf(1) = {"clearCircle"}
  /\ timeouts[1] = 1 /\ stepPerFrame[1] = 2

\* C7: before the engine's ready callback has fired the host has issued no
\* engine call and registered no listener, timer or animation frame; the call
\* the ready callback issues is the whole-field paint of modelId.
C7_NothingBeforeReady ==
  \A h \in Instances :
    /\ phase[h] # "setup" =>
         /\ calls[h] = <<>>
         /\ ~listeners[h] /\ ~interval[h] /\ rafPending[h] = {} /\ timeouts[h] = 0
    /\ last[h].op = "setup" =>
         /\ Len(calls[h]) = 1
         /\ calls[h][1].op = "paint" /\ calls[h][1].r = -1 /\ calls[h][1].id = modelId[h]

\* a key is pressed while the engine of a constructed instance is still loading
C7_Witness == phase[1] = "constructed" /\ ca[1] = "loading" /\ last[1].op = "keypress"

\* C8: with at least two models, a tick of the model timer leaves modelId
\* different from what it was, and issues the whole-field paint of the new id.
C8_TickSwitches ==
  [][\A h \in Instances :
       (tick(h) /\ NumModels >= 2) =>
         /\ modelId'[h] # modelId[h]
         /\ modelId'[h] \in ModelIndexes
         /\ calls'[h] # <<>>
         /\ calls'[h][1].op = "paint" /\ calls'[h][1].r = -1
         /\ calls'[h][1].id = modelId'[h]]_vars

\* the timer of a non-responsive instance has ticked
C8_Witness ==
  /\ ~responsive[1] /\ last[1].op = "tick" /\ ca[1] = "ready" /\ Len(calls[1]) = 2

\* C9: on an instance that is not responsive no mouse, touch or key event
\* issues an engine call or changes modelId, curModelIndex or the gesture;
\* its edits come from setup() and the model timer only.
InputEvent(h) ==
  \/ \E pos \in Positions, b \in Buttons, t \in StartTimes : mousedown(h, pos, b, t)
  \/ \E pos \in Positions, b \in Buttons : mousemove(h, pos, b)
  \/ \E t \in Times : mouseup(h, t)
  \/ \E ps \in TouchLists, t \in StartTimes : touchstart(h, ps, t)
  \/ \E ps \in TouchLists : touchmove(h, ps)
  \/ \E t \in Times : touchend(h, t)
  \/ \E key \in Keys : keypress(h, key)

C9_Quiet(h) ==
  (Alive(h) /\ ~responsive[h]) =>
    /\ ~listeners[h]
    /\ gesture[h] = NoGesture
    /\ last[h].op \in InputOps => calls[h] = <<>>
    /\ OpsOf(h) \cap EditOps # {} => last[h].op \in {"setup", "tick"}

C9_InputIgnored ==
  /\ [](\A h \in Instances : C9_Quiet(h))
  /\ [][\A h \in Instances :
          (~responsive[h] /\ last'[h].op \in InputOps /\ InputEvent(h)) =>
            /\ calls'[h] = <<>>
            /\ modelId'[h] = modelId[h] /\ curModelIndex'[h] = curModelIndex[h]
            /\ gesture'[h] = gesture[h]]_vars

\* a mouse button goes down on the canvas of a non-responsive instance
C9_Witness ==
  /\ ~responsive[1] /\ phase[1] = "setup" /\ ca[1] = "ready" /\ last[1].op = "mousedown"

C12_DoubleBuffer ==
  /\ [](current \in Buffers /\ DOMAIN buffers = Buffers)
  /\ [][(~released /\ engLast'.op = "step" /\ caStep) =>
           /\ engLast'.read = {current} /\ engLast'.wrote = {1 - current}
           /\ buffers'[current] = buffers[current]
           /\ current' = 1 - current /\ engLast'.swaps = 1]_vars
  /\ [][(~released /\ engLast'.op = "draw" /\ caDraw) =>
           /\ engLast'.read = {current} /\ engLast'.wrote = {}
           /\ buffers' = buffers /\ current' = current]_vars
  /\ [][(engLast'.op \in EditOps /\ engLast'.err = "") =>
           /\ engLast'.read = {current}
           /\ engLast'.wrote = {current'}]_vars

\* a step has made the buffer with a live cell the current one, the other stale
C12_Witness ==
  /\ engLast.op = "step" /\ engLast.err = "" /\ current = 0
  /\ buffers[0] # buffers[1] /\ \E c \in Cells : buffers[current][c].alive

\* C13: paint with a modelId outside [0, count()) fails with
\* InvalidModelIdError, leaves both buffers and the current flag exactly as
\* they were, and leaves the engine usable.
C13_InvalidPaintNoEffect ==
  [][\A x \in Cells, radius \in Radii, id \in GivenIds, inPlace \in BOOLEAN :
       (id \notin ModelIndexes /\ ~released /\ engLast'.op = "paint"
          /\ caPaint(x, radius, id, inPlace)) =>
         /\ engLast'.op = "paint" /\ engLast'.err = "InvalidModelIdError"
         /\ engLast'.wrote = {}
         /\ buffers' = buffers /\ current' = current
         /\ ~released']_vars

\* a paint with an invalid id has failed on a field that holds a live cell
C13_Witness ==
  /\ engLast.op = "paint" /\ engLast.err = "InvalidModelIdError" /\ ~released
  /\ \E c \in Cells : buffers[current][c].alive /\ buffers[current][c].sel = NumModels - 1

\* the events that reach switchModel
SwitchOps == {"tick", "keypress", "mouseup", "touchend", "switchModel"}

\* C14: every model switch, whatever triggers it, issues exactly
\* paint(0, 0, -1, id) and then disturb() to the engine, nothing else and in
\* that order, and leaves modelId equal to the painted id.
C14_SwitchCalls ==
  \A h \in Instances :
    (last[h].op \in SwitchOps /\ calls[h] # <<>>) =>
      calls[h] = <<Paint(modelId[h]), Disturb>>

\* the two swipe conditions, as the claim words them
leftSwipe(g, now) ==
  now - g.time < 1000 /\ g.l > 200 /\ 4 * g.r < g.l /\ 4 * g.u < g.l /\ 4 * g.d < g.l
rightSwipe(g, now) ==
  now - g.time < 1000 /\ g.r > 200 /\ 4 * g.l < g.r /\ 4 * g.u < g.r /\ 4 * g.d < g.r

\* the gesture end of instance h at the reading now classifies as claimed
C15_Classified(h, now) ==
  LET g == gesture[h]
      to(swipe) == switchIndex(curModelIndex[h], NumModels, swipe)
      switched(swipe) ==
        /\ curModelIndex'[h] = to(swipe)
        /\ modelId'[h] = idAt(shuffledModelIds[h], to(swipe))
        /\ calls'[h] # <<>> /\ Len(calls'[h]) <= 2
        /\ calls'[h][1].op = "paint" /\ calls'[h][1].id = modelId'[h]
        /\ \A i \in DOMAIN calls'[h] : i > 1 => calls'[h][i].op = "disturb"
      untouched ==
        /\ calls'[h] = <<>>
        /\ curModelIndex'[h] = curModelIndex[h] /\ modelId'[h] = modelId[h]
  IN IF ~g.on THEN untouched
     ELSE /\ ~(leftSwipe(g, now) /\ rightSwipe(g, now))
          /\ leftSwipe(g, now) => switched(-1)
          /\ rightSwipe(g, now) => switched(1)
          /\ ~(leftSwipe(g, now) \/ rightSwipe(g, now)) => untouched

\* C15: at the end of a gesture switchModel is called at most once: with -1
\* exactly when the gesture lasted under 1000 ms, l > 200 and each of r, u, d
\* is below l / 4; with 1 exactly when it lasted under 1000 ms, r > 200 and
\* each of l, u, d is below r / 4; never both; otherwise the model stays.
\* Afterwards the gesture is null, and an end without a gesture does nothing.
C15_SwipeClassification ==
  [][\A h \in Instances : \A now \in Times :
       (listeners[h] /\ (mouseup(h, now) \/ touchend(h, now))) =>
         (C15_Classified(h, now) /\ gesture'[h] = NoGesture)]_vars

\* the classification alone, whether or not the gesture is null afterwards
C15_ClassificationOnly ==
  [][\A h \in Instances : \A now \in Times :
       (listeners[h] /\ (mouseup(h, now) \/ touchend(h, now))) =>
         C15_Classified(h, now)]_vars

\* C16: a touchstart with more than one touch cancels the gesture and only one
\* with exactly one touch starts one; touch moves without a gesture accumulate
\* nothing; a touchend without a gesture calls no switchModel.  So from a
\* multi-touch touchstart on, no move or end of a touch switches the model.
C16_MultiTouchNoSwitch ==
  [][\A h \in Instances :
       /\ \A ps \in TouchLists : \A t \in StartTimes :
            (listeners[h] /\ last'[h].op = "touchstart" /\ touchstart(h, ps, t)) =>
              /\ gesture'[h].on <=> Len(ps) = 1
              /\ Len(ps) > 1 => gesture'[h] = NoGesture
              /\ modelId'[h] = modelId[h] /\ curModelIndex'[h] = curModelIndex[h]
       /\ \A ps \in TouchLists :
            (listeners[h] /\ ~gesture[h].on /\ last'[h].op = "touchmove" /\ touchmove(h, ps)) =>
              /\ gesture'[h] = NoGesture
              /\ modelId'[h] = modelId[h] /\ curModelIndex'[h] = curModelIndex[h]
       /\ \A t \in Times :
            (listeners[h] /\ ~gesture[h].on /\ last'[h].op = "touchend" /\ touchend(h, t)) =>
              /\ calls'[h] = <<>> /\ gesture'[h] = NoGesture
              /\ modelId'[h] = modelId[h] /\ curModelIndex'[h] = curModelIndex[h]]_vars

\* of two fingers that came down on a responsive instance one has been lifted
C16_Witness ==
  /\ listeners[1] /\ last[1].op = "touchend" /\ fingers[1] = MaxTouches - 1
  /\ fingers[1] >= 1 /\ calls[1] = <<>> /\ gesture[1] = NoGesture

\* the samples ps, handled in order by touch(pos), gave the calls of instance
\* h: one clearCircle at each sample's position with the brush radius, up to
\* and including a call that threw; the model is as it was
C17_Samples(h, ps) ==
  /\ calls'[h] # <<>> /\ Len(calls'[h]) <= Len(ps)
  /\ \A i \in DOMAIN calls'[h] :
       /\ calls'[h][i].op = "clearCircle"
       /\ calls'[h][i].x = ps[i][1] /\ calls'[h][i].y = ps[i][2]
       /\ calls'[h][i].r = brushRadius[h]
       /\ i < Len(calls'[h]) => calls'[h][i].ok
  /\ Len(calls'[h]) < Len(ps) => ~calls'[h][Len(calls'[h])].ok
  /\ curModelIndex'[h] = curModelIndex[h] /\ modelId'[h] = modelId[h]
  /\ shuffledModelIds'[h] = shuffledModelIds[h]

\* C17: every pointer sample handled by touch(pos) issues exactly one
\* clearCircle at its position with the brush radius, with or without a
\* gesture, and changes nothing of the model; a mouse sample is handled only
\* when the primary button alone is pressed (buttons = 1).
C17_OneClearPerSample ==
  [][\A h \in Instances :
       /\ \A pos \in Positions : \A b \in Buttons :
            /\ \A t \in StartTimes :
                 (listeners[h] /\ last'[h].op = "mousedown" /\ mousedown(h, pos, b, t)) =>
                   IF b = 1 THEN C17_Samples(h, <<pos>>) ELSE calls'[h] = <<>>
            /\ (listeners[h] /\ last'[h].op = "mousemove" /\ mousemove(h, pos, b)) =>
                 IF b = 1 THEN C17_Samples(h, <<pos>>) ELSE calls'[h] = <<>>
       /\ \A ps \in TouchLists :
            /\ \A t \in StartTimes :
                 (listeners[h] /\ last'[h].op = "touchstart" /\ touchstart(h, ps, t)) =>
                   C17_Samples(h, ps)
            /\ (listeners[h] /\ last'[h].op = "touchmove" /\ touchmove(h, ps)) =>
                 C17_Samples(h, ps)]_vars

\* two fingers at different places have moved on a responsive instance
C17_Witness ==
  /\ last[1].op = "touchmove" /\ last[1].err = "" /\ Len(calls[1]) = 2
  /\ calls[1][1].x # calls[1][2].x

\* the renders of instance h that are pending: requested animation frames and
\* the delays that will request one
pendingRenders(h) == Cardinality(rafPending[h]) + timeouts[h]

\* C18: the animation loop of an instance is a single chain: at most one
\* render is pending at any time, and as long as the instance is set up and
\* not destroyed exactly one is (the loop neither doubles nor stalls).
C18_SingleChain ==
  \A h \in Instances :
    /\ pendingRenders(h) <= 1
    /\ (phase[h] = "setup" /\ ca[h] = "ready") => pendingRenders(h) = 1

\* C19: with two live instances, destroy() of one stops its own loop (nothing
\* of it stays pending) and leaves the pending render of the other as it is.
C19_Independent ==
  [][\A a, b \in Instances :
       (a # b /\ ca[a] = "ready" /\ phase[b] = "setup" /\ ca[b] = "ready" /\ destroy(a)) =>
         /\ rafPending'[b] = rafPending[b] /\ timeouts'[b] = timeouts[b]
         /\ pendingRenders(b)' = 1
         /\ pendingRenders(a)' = 0]_vars

\* the other instance alone, whatever becomes of the destroyed one's loop
C19_OtherKeepsRunning ==
  [][\A a, b \in Instances :
       (a # b /\ ca[a] = "ready" /\ phase[b] = "setup" /\ ca[b] = "ready" /\ destroy(a)) =>
         /\ rafPending'[b] = rafPending[b] /\ timeouts'[b] = timeouts[b]]_vars
====
